---------------------------- MODULE Spec2Model ----------------------------
(***************************************************************************)
(* A state-machine model of src/script.js, the Vector FX landing page      *)
(* script: bootstrap, scroll reveal, waitlist form, navbar scroll style    *)
(* and parallax.  JavaScript runs each handler to completion, so every     *)
(* action below is one whole handler (or one whole continuation of the     *)
(* async submit handler after its await).                                  *)
(***************************************************************************)
EXTENDS Integers, Sequences, FiniteSets, TLC

VARIABLES
    \* ---- bootstrap (script.js 12-32)
    readyState,        \* document.readyState
    scriptRan,         \* the script's top-level code has executed
    dclListener,       \* init is registered for DOMContentLoaded
    dclFired,          \* DOMContentLoaded has been dispatched
    throwing,          \* the initializers that throw in this page (environment)
    called,            \* the initializers invoked so far, in order
    installed,         \* the initializers that returned normally
    initRuns,          \* number of invocations of init
    initErrors,        \* number of 'Initialization error' console.error lines
    \* ---- scroll reveal (script.js 37-77)
    pageTargets,       \* the elements matching the content-section selector
    observed,          \* targets under observation by the IntersectionObserver
    visible,           \* targets whose classList holds 'visible'
    revealTimers,      \* pending setTimeout callbacks, in creation order
    scheduled,         \* per target: timers ever scheduled for it
    fired,             \* per target: timer callbacks that have run for it
    reported,          \* per target: the isIntersecting last reported ("never" at first)
    batches,           \* number of batches delivered so far
    lastBatch,         \* the entries of the batch delivered last
    \* ---- waitlist form (script.js 82-151, 165-175, 208-241, 338-370)
    emailValue,        \* emailInput.value
    btnDisabled,       \* submitBtn.disabled
    btnAriaBusy,       \* submitBtn aria-busy attribute
    btnLabel,          \* submitBtn.innerHTML
    formDisplay,       \* form.style.display
    successShown,      \* successMessage.classList holds 'show'
    requests,          \* suspended handleFormSubmit invocations (fetch in flight)
    submits,           \* number of submit events dispatched
    fetches,           \* number of fetch calls
    okResponses,       \* number of responses with response.ok
    successes,         \* number of transitions to the success state
    liveRegions,       \* announcement elements in the document, oldest first
    regionIds,         \* which announcement made each of them, in the same order
    announceTimers,    \* pending removal timers (the announcement each belongs to)
    announced,         \* number of announceToScreenReader calls
    emailInvalid,      \* emailInput aria-invalid attribute
    shakeTimers,       \* pending shakeElement reset timers
    shakes,            \* number of shakeElement calls
    activeElement,     \* document.activeElement
    reducedMotion,     \* the (prefers-reduced-motion: reduce) media query matches
    gtagMode,          \* the global gtag: "absent", "ok" or "throws"
    confettiNodes,     \* confetti elements in the document, in insertion order
    confettiTimers,    \* pending confetti cleanup timers (the call each belongs to)
    confettiLog,       \* per createConfetti call: reducedMotion at the call
    tracked,           \* the calls of trackEvent: event name and event data
    formErrors,        \* number of 'Form submission error' console.error lines
    lastEvent,         \* the handler step that ran last
    \* ---- navbar scroll style and parallax (script.js 283-310, 375-399)
    pageYOffset,       \* window.pageYOffset
    ticking,           \* initNavbarScroll's guard flag
    navStyle,          \* the navbar's inline style preset
    rafQueue,          \* pending animation frame callbacks, in request order
    nextHandle,        \* the document's animation frame callback identifier
    rafId,             \* the parallax guard (0 stands for null)
    heroTransform,     \* heroVisual.style.transform
    scrolled,          \* at least one scroll event has been dispatched
    absorbed,          \* a scroll event arrived while the guard was set
    desktop,           \* window.innerWidth >= 1024 when the script runs
    parallaxOn,        \* the parallax mousemove listener is registered
    \* ---- email validation on its own (script.js 156-160)
    candidate,         \* the string handed to isValidEmail
    verdict,           \* <<r>> once isValidEmail returned r for it, <<>> before
    \* ---- smooth scroll and keyboard navigation (script.js 246-278, 325-333)
    tabindex,          \* per section: its tabindex attribute ("unset" when absent)
    navHeight,         \* nav.offsetHeight, 0 when the page has no .nav
    smoothSupported,   \* 'scrollBehavior' in document.documentElement.style
    clicks,            \* number of clicks on in-page anchors
    lastClick,         \* the last such click: href, defaultPrevented, focus options
    scrollCalls,       \* the window.scrollTo calls so far
    \* ---- scroll reveal without IntersectionObserver (script.js 39-55)
    ioSupported,       \* 'IntersectionObserver' in window
    marked,            \* targets whose classList holds 'animate-on-scroll'
    inlineShown        \* targets with style.opacity '1' and style.transform 'none'

bootVars   == <<readyState, scriptRan, dclListener, dclFired, throwing, called,
                installed, initRuns, initErrors>>
revealVars == <<pageTargets, observed, visible, revealTimers, scheduled, fired, reported,
                batches, lastBatch>>
formVars   == <<emailValue, btnDisabled, btnAriaBusy, btnLabel, formDisplay,
                successShown, requests, submits, fetches, okResponses, successes,
                liveRegions, regionIds, announceTimers, announced,
                emailInvalid, shakeTimers, shakes, activeElement,
                reducedMotion, gtagMode, confettiNodes, confettiTimers,
                confettiLog, tracked, formErrors, lastEvent>>
frameVars  == <<pageYOffset, ticking, navStyle, rafQueue, nextHandle, rafId,
                heroTransform, scrolled, absorbed, desktop, parallaxOn>>
validatorVars == <<candidate, verdict>>
anchorVars == <<tabindex, navHeight, smoothSupported, clicks, lastClick, scrollCalls>>
markerVars == <<ioSupported, marked, inlineShown>>
otherVars  == <<validatorVars, anchorVars, markerVars>>
announceVars == <<liveRegions, regionIds, announceTimers, announced>>
vars       == <<bootVars, revealVars, formVars, frameVars, otherVars>>

Min(a, b) == IF a < b THEN a ELSE b

Range(s) == {s[i] : i \in DOMAIN s}

-----------------------------------------------------------------------------
(* Scroll reveal                                                           *)

\* The stagger step and cap of the reveal delay, in ms (script.js 67).
StaggerStep == 100
StaggerCap == 500

\* Largest page followed through several batches: its number of elements
\* matching the content-section selector (script.js 49-51).
NumTargets == 4

\* Number of intersection batches delivered on such a page.
MaxBatches == 3

\* The least number of entries of one batch for which the cap of the stagger
\* delay is lower than index * StaggerStep; a page of this size is followed
\* through its first batch.
CapTargets == StaggerCap \div StaggerStep + 2

PageSizes == (0..NumTargets) \cup {CapTargets}

\* The elements are numbered in document order.
Targets == 1..(IF NumTargets > CapTargets THEN NumTargets ELSE CapTargets)

\* A fallback that styles no element.
FallbackShown_None(withMarker) == {}

\* The fallback loop (script.js 41-44): the elements selected by
\* '.animate-on-scroll' get the inline styles.
FallbackShown(withMarker) == withMarker

\* initScrollAnimations (script.js 37-77): without IntersectionObserver the
\* fallback runs and the function returns; with it every element of the
\* content-section classes gets the marker class and is put under
\* observation.
initScrollAnimations ==
    IF ~ioSupported
    THEN [marked |-> marked,
          inlineShown |-> inlineShown \cup FallbackShown(marked),
          observed |-> observed]
    ELSE [marked |-> marked \cup pageTargets,
          inlineShown |-> inlineShown,
          observed |-> observed \cup pageTargets]

-----------------------------------------------------------------------------
(* Bootstrap                                                               *)

\* The initializers in the order init calls them (script.js 22-27).
InitOrder == <<"initScrollAnimations", "initWaitlistForm", "initSmoothScroll",
               "initNavbarScroll", "initCurrentYear", "initKeyboardNavigation">>

Initializers == Range(InitOrder)

\* The try block of init: the calls run in sequence from position i; a throw
\* leaves the block, so the calls after it are never made.  The result is
\* the calls made, the calls that returned, and whether the catch ran.
RECURSIVE RunInitializers(_, _, _, _)
RunInitializers(i, made, done, thrown) ==
    IF i > Len(InitOrder) THEN [made |-> made, done |-> done, caught |-> FALSE]
    ELSE IF InitOrder[i] \in thrown
         THEN [made |-> Append(made, InitOrder[i]), done |-> done, caught |-> TRUE]
         ELSE RunInitializers(i + 1, Append(made, InitOrder[i]),
                              done \cup {InitOrder[i]}, thrown)

\* init() (script.js 20-31).
init ==
    LET r == RunInitializers(1, <<>>, {}, throwing) IN
    /\ called' = called \o r.made
    /\ installed' = installed \cup r.done
    /\ initRuns' = initRuns + 1
    /\ initErrors' = initErrors + (IF r.caught THEN 1 ELSE 0)
    /\ observed' = IF "initScrollAnimations" \in r.done
                   THEN initScrollAnimations.observed ELSE observed
    /\ marked' = IF "initScrollAnimations" \in r.done
                 THEN initScrollAnimations.marked ELSE marked
    /\ inlineShown' = IF "initScrollAnimations" \in r.done
                      THEN initScrollAnimations.inlineShown ELSE inlineShown

\* Fault: the readiness check is inverted.
StillLoading_Inverted == readyState # "loading"

\* The readiness check of the bootstrap IIFE (script.js 14).
StillLoading == readyState = "loading"

\* The guard of the parallax IIFE (script.js 377): a wide window and no
\* reduced-motion preference (the page has a .hero-visual element).
ParallaxEnabled == desktop /\ ~reducedMotion

\* The script's top-level code: the bootstrap IIFE (script.js 12-18) and
\* the parallax IIFE (script.js 375-399).
ScriptExecutes ==
    /\ ~scriptRan
    /\ scriptRan' = TRUE
    /\ IF StillLoading
       THEN /\ dclListener' = TRUE
            /\ UNCHANGED <<called, installed, initRuns, initErrors, observed,
                           marked, inlineShown>>
       ELSE /\ init
            /\ UNCHANGED dclListener
    /\ parallaxOn' = ParallaxEnabled
    /\ UNCHANGED <<readyState, dclFired, throwing>>
    /\ UNCHANGED <<pageTargets, visible, revealTimers, scheduled, fired, reported,
                   batches, lastBatch>>
    /\ UNCHANGED <<pageYOffset, ticking, navStyle, rafQueue, nextHandle, rafId,
                   heroTransform, scrolled, absorbed, desktop>>
    /\ UNCHANGED <<formVars, validatorVars, anchorVars, ioSupported>>

\* The parser finishes: document.readyState becomes 'interactive'.
ParsingEnds ==
    /\ readyState = "loading"
    /\ readyState' = "interactive"
    /\ UNCHANGED <<scriptRan, dclListener, dclFired, throwing, called, installed,
                   initRuns, initErrors>>
    /\ UNCHANGED <<revealVars, formVars, frameVars, otherVars>>

\* The browser dispatches DOMContentLoaded, once, after parsing ended; a
\* registered init listener runs (script.js 15).
DOMContentLoaded ==
    /\ readyState = "interactive"
    /\ ~dclFired
    /\ dclFired' = TRUE
    /\ IF dclListener
       THEN init
       ELSE UNCHANGED <<called, installed, initRuns, initErrors, observed,
                        marked, inlineShown>>
    /\ UNCHANGED <<readyState, scriptRan, dclListener, throwing>>
    /\ UNCHANGED <<pageTargets, visible, revealTimers, scheduled, fired, reported,
                   batches, lastBatch>>
    /\ UNCHANGED <<formVars, frameVars, validatorVars, anchorVars, ioSupported>>

\* The load event: document.readyState becomes 'complete'.
WindowLoad ==
    /\ readyState = "interactive"
    /\ dclFired
    /\ readyState' = "complete"
    /\ UNCHANGED <<scriptRan, dclListener, dclFired, throwing, called, installed,
                   initRuns, initErrors>>
    /\ UNCHANGED <<revealVars, formVars, frameVars, otherVars>>

-----------------------------------------------------------------------------
(* Scroll reveal: the observer callback and its timers                     *)

\* The least element of a non-empty set of numbers.
Least(S) == CHOOSE x \in S : \A y \in S : x <= y

\* The elements of S in document order.
RECURSIVE InOrder(_)
InOrder(S) == IF S = {} THEN <<>> ELSE <<Least(S)>> \o InOrder(S \ {Least(S)})

\* A batch of IntersectionObserverEntry records: one entry for each target of
\* S, in document order, each intersecting or not.
Entries(S, flags) ==
    [i \in 1..Cardinality(S) |->
        [target |-> InOrder(S)[i], isIntersecting |-> flags[InOrder(S)[i]]]]

\* Fault: the delay wraps around past the cap instead of staying at it.
StaggerDelay_Wrapping(index) == (index * StaggerStep) % (StaggerCap + StaggerStep)

\* const delay = Math.min(index * 100, 500) (script.js 67); index is the
\* forEach index, the entry's position in the whole batch.
StaggerDelay(index) == Min(index * StaggerStep, StaggerCap)

\* Fault: the target is left under observation.
Unobserve_Nothing(obs, target) == obs

\* observer.unobserve(entry.target) (script.js 71).
Unobserve(obs, target) == obs \ {target}

\* entries.forEach((entry, index) => ...) (script.js 64-73), from the entry
\* at position i (1-based; its forEach index is i - 1).  st holds the timers,
\* the observed set and the per-target timer counts.
RECURSIVE ForEachEntry(_, _, _)
ForEachEntry(entries, i, st) ==
    IF i > Len(entries) THEN st
    ELSE IF entries[i].isIntersecting
         THEN ForEachEntry(entries, i + 1,
                [timers |-> Append(st.timers,
                                [target |-> entries[i].target,
                                 delay  |-> StaggerDelay(i - 1),
                                 left   |-> StaggerDelay(i - 1),
                                 batch  |-> batches + 1,
                                 index  |-> i - 1]),
                 obs    |-> Unobserve(st.obs, entries[i].target),
                 sched  |-> [st.sched EXCEPT ![entries[i].target] = @ + 1]])
         ELSE ForEachEntry(entries, i + 1, st)

\* The IntersectionObserver callback (script.js 63-74) on one batch.
IntersectionCallback(entries) ==
    LET st == ForEachEntry(entries, 1,
                [timers |-> revealTimers, obs |-> observed,
                 sched |-> scheduled]) IN
    /\ revealTimers' = st.timers
    /\ observed' = st.obs
    /\ scheduled' = st.sched
    /\ batches' = batches + 1
    /\ lastBatch' = entries
    /\ UNCHANGED <<pageTargets, visible, fired>>

\* Number of batches the page is followed through.
BatchLimit == IF Cardinality(pageTargets) > NumTargets THEN 1 ELSE MaxBatches

\* An observed target gets an entry when it is first observed and then
\* whenever its intersection state changes.
EntryPossible(t, flag) ==
    \/ reported[t] = "never"
    \/ reported[t] = "in" /\ ~flag
    \/ reported[t] = "out" /\ flag

\* The browser delivers a batch: the first one reports every observed
\* target, a later one the observed targets whose state changed.
DeliverBatch ==
    /\ "initScrollAnimations" \in installed
    /\ batches < BatchLimit
    /\ \E S \in SUBSET observed :
         /\ S # {}
         /\ batches = 0 => S = observed
         /\ \E flags \in [S -> BOOLEAN] :
              /\ \A t \in S : EntryPossible(t, flags[t])
              /\ IntersectionCallback(Entries(S, flags))
              /\ reported' = [t \in Targets |->
                                IF t \in S
                                THEN (IF flags[t] THEN "in" ELSE "out")
                                ELSE reported[t]]
    /\ UNCHANGED <<bootVars, formVars, frameVars, otherVars>>

\* The position in revealTimers of the timer that runs next: the oldest of
\* those that are due.
DueTimer == Least({i \in DOMAIN revealTimers : revealTimers[i].left = 0})

\* Remove position i from a sequence.
RemoveAt(s, i) == SubSeq(s, 1, i - 1) \o SubSeq(s, i + 1, Len(s))

\* entry.target.classList.add('visible') (script.js 69).
AddVisible(target) == visible \cup {target}

\* A due setTimeout callback runs (script.js 68-70).
RevealTimerFires ==
    /\ \E i \in DOMAIN revealTimers : revealTimers[i].left = 0
    /\ visible' = AddVisible(revealTimers[DueTimer].target)
    /\ fired' = [fired EXCEPT ![revealTimers[DueTimer].target] = @ + 1]
    /\ revealTimers' = RemoveAt(revealTimers, DueTimer)
    /\ UNCHANGED <<pageTargets, observed, scheduled, reported, batches, lastBatch>>
    /\ UNCHANGED <<bootVars, formVars, frameVars, otherVars>>

\* Time passes by one stagger step while no callback is due.
TimePasses ==
    /\ revealTimers # <<>>
    /\ \A i \in DOMAIN revealTimers : revealTimers[i].left >= StaggerStep
    /\ revealTimers' = [i \in DOMAIN revealTimers |->
                          [revealTimers[i] EXCEPT !.left = @ - StaggerStep]]
    /\ UNCHANGED <<pageTargets, observed, visible, scheduled, fired, reported,
                   batches, lastBatch>>
    /\ UNCHANGED <<bootVars, formVars, frameVars, otherVars>>

-----------------------------------------------------------------------------
(* Waitlist form: strings, validation and the feedback helpers             *)
(* A string is a sequence of one-character strings.                        *)

Digits == {"0", "1", "2", "3", "4", "5", "6", "7", "8", "9"}

Letters == {"a", "b", "c", "d", "e", "f", "g", "h", "i", "j", "k", "l", "m",
            "n", "o", "p", "q", "r", "s", "t", "u", "v", "w", "x", "y", "z",
            "A", "B", "C", "D", "E", "F", "G", "H", "I", "J", "K", "L", "M",
            "N", "O", "P", "Q", "R", "S", "T", "U", "V", "W", "X", "Y", "Z"}

\* [a-zA-Z0-9] (script.js 158).
Alnum == Letters \cup Digits

\* The character class of the local part (script.js 158): alphanumerics and
\* the listed punctuation ("backtick" stands for the grave accent, which a
\* TLA+ string cannot hold).
LocalChars == Alnum \cup {".", "!", "#", "$", "%", "&", "'", "*", "+", "/", "=",
                          "?", "^", "_", "backtick", "{", "|", "}", "~", "-"}

\* The characters String.prototype.trim strips (script.js 95).
Whitespace == {" ", "\t", "\n", "\r"}

\* Longest label the domain pattern admits: 1 + 61 + 1 (script.js 158).
MaxLabelLen == 63

\* Longest address isValidEmail admits (script.js 159).
MaxEmailLen == 254

RECURSIVE TrimStart(_)
TrimStart(s) == IF s # <<>> /\ Head(s) \in Whitespace THEN TrimStart(Tail(s)) ELSE s

RECURSIVE TrimEnd(_)
TrimEnd(s) ==
    IF s # <<>> /\ s[Len(s)] \in Whitespace
    THEN TrimEnd(SubSeq(s, 1, Len(s) - 1)) ELSE s

\* emailInput.value.trim() (script.js 95).
Trim(s) == TrimEnd(TrimStart(s))

\* s.split(sep): the pieces of s between the occurrences of sep.
RECURSIVE Split(_, _)
Split(s, sep) ==
    IF \A i \in DOMAIN s : s[i] # sep THEN <<s>>
    ELSE LET k == CHOOSE i \in DOMAIN s :
                    s[i] = sep /\ \A j \in 1..(i - 1) : s[j] # sep
         IN <<SubSeq(s, 1, k - 1)>> \o Split(SubSeq(s, k + 1, Len(s)), sep)

\* A label pattern whose first and last characters may be hyphens too.
LabelMatches_HyphenAtEdge(l) ==
    /\ Len(l) >= 1
    /\ Len(l) <= MaxLabelLen
    /\ \A i \in DOMAIN l : l[i] \in Alnum \cup {"-"}

\* [a-zA-Z0-9](?:[a-zA-Z0-9-]{0,61}[a-zA-Z0-9])? matches the whole of l.
LabelMatches(l) ==
    /\ Len(l) >= 1
    /\ Len(l) <= MaxLabelLen
    /\ l[1] \in Alnum
    /\ l[Len(l)] \in Alnum
    /\ \A i \in DOMAIN l : l[i] \in Alnum \cup {"-"}

\* label(?:\.label)*$ matches the whole of d.
DomainMatches(d) ==
    \A i \in DOMAIN Split(d, ".") : LabelMatches(Split(d, ".")[i])

\* Length of the longest prefix of s made of local-part characters.
RECURSIVE LocalRun(_)
LocalRun(s) ==
    IF s # <<>> /\ Head(s) \in LocalChars THEN 1 + LocalRun(Tail(s)) ELSE 0

\* emailRegex.test(email) (script.js 158): a non-empty run of local-part
\* characters, an '@', then the domain up to the end of the string.
EmailRegexTest(email) ==
    LET n == LocalRun(email) IN
    /\ n >= 1
    /\ n < Len(email)
    /\ email[n + 1] = "@"
    /\ DomainMatches(SubSeq(email, n + 2, Len(email)))

\* isValidEmail (script.js 156-160).
isValidEmail(email) == EmailRegexTest(email) /\ Len(email) <= MaxEmailLen

\* The characters the strings handed to isValidEmail on its own are made of:
\* an alphanumeric, the separators of the pattern, a local-part character
\* that no label admits, and a character outside every class.
CandidateChars == {"a", "-", ".", "@", "_", " "}

\* Every string over CandidateChars up to this length is a candidate.
MaxCandidateLen == 5

Repeat(c, n) == [i \in 1..n |-> c]

\* local@label.label.label with a local part of n characters and three labels
\* of MaxLabelLen characters: MaxEmailLen characters long when n = LongLocal.
LongLocal == MaxEmailLen - 3 * MaxLabelLen - 3

LongAddress(n) ==
    Repeat("a", n) \o <<"@">> \o Repeat("b", MaxLabelLen) \o <<".">>
        \o Repeat("c", MaxLabelLen) \o <<".">> \o Repeat("d", MaxLabelLen)

\* a@label with a label of n characters.
LongLabel(n) == <<"a", "@">> \o Repeat("b", n)

Candidates ==
    UNION {[1..k -> CandidateChars] : k \in 0..MaxCandidateLen}
    \cup {LongAddress(LongLocal), LongAddress(LongLocal + 1),
          LongLabel(MaxLabelLen), LongLabel(MaxLabelLen + 1)}

\* One call of isValidEmail (script.js 156-160) on the candidate.
ValidateEmail ==
    /\ verdict = <<>>
    /\ verdict' = <<isValidEmail(candidate)>>
    /\ UNCHANGED candidate
    /\ UNCHANGED <<bootVars, revealVars, formVars, frameVars, anchorVars, markerVars>>

\* The values the user types into the email field.
EmailInputs ==
    { <<>>,
      <<" ", " ">>,
      <<"a", "@", "b", ".", "c", "o">>,
      <<" ", "x", "@", "y", ".", "i", "o", " ">>,
      <<"n", "o", "t", "-", "a", "n", "-", "e", "m", "a", "i", "l">>,
      <<"a", "@", "-", "b", ".", "c", "o">> }

\* submitBtn.innerHTML in the page's markup, and the loading label
\* '<span>Joining...</span>' (script.js 109).
OriginalLabel == "original"
LoadingLabel == "<span>Joining...</span>"

InvalidMessage == "Please enter a valid email address"
SuccessMessage == "Success! You're on the waitlist. We'll be in touch soon."
ErrorMessage == "There was an error. Please try again."

\* Number of submit events dispatched to the form.
MaxSubmits == 3

\* const confettiCount = 50 (script.js 210).
ConfettiCount == 50

\* One confetti element as createConfetti builds it (script.js 216-233): its
\* style names the confettiFall animation and pointer-events: none, and it is
\* hidden from assistive technology.  The random colour, position and size
\* are left out; call tells the invocation that made the element.
ConfettiElement(call) ==
    [call |-> call, animation |-> "confettiFall", pointerEvents |-> "none",
     ariaHidden |-> "true"]

\* The loop of createConfetti (script.js 215-233) from index i on.
RECURSIVE ConfettiFragment(_, _)
ConfettiFragment(call, i) ==
    IF i < ConfettiCount
    THEN <<ConfettiElement(call)>> \o ConfettiFragment(call, i + 1)
    ELSE <<>>

\* createConfetti (script.js 208-241): the fragment is appended to the body
\* and a cleanup timer is set.
createConfetti(dom, call) ==
    [nodes |-> dom.nodes \o ConfettiFragment(call, 0),
     timers |-> Append(dom.timers, call)]

\* Removing the first element only that the cleanup selector matches.
ConfettiLeftBy_FirstOnly(nodes) == Tail(nodes)

\* The cleanup callback (script.js 238-240): what is left of nodes once every
\* element whose style attribute names confettiFall is removed.
ConfettiLeftBy(nodes) ==
    SelectSeq(nodes, LAMBDA n : n.animation # "confettiFall")

\* The announcement elements of the document and their timers.
Announcements ==
    [regions |-> liveRegions, ids |-> regionIds, timers |-> announceTimers,
     announced |-> announced]

SetAnnouncements(dom) ==
    /\ liveRegions' = dom.regions
    /\ regionIds' = dom.ids
    /\ announceTimers' = dom.timers
    /\ announced' = dom.announced

\* An announcement whose removal is never scheduled.
announceToScreenReader_NoTimer(dom, message) ==
    [regions |-> Append(dom.regions, message),
     ids |-> Append(dom.ids, dom.announced + 1),
     timers |-> dom.timers,
     announced |-> dom.announced + 1]

\* announceToScreenReader (script.js 338-349): one live-region element
\* carrying the message is appended to the body, and a 1000 ms timer is set
\* that removes this element.
announceToScreenReader(dom, message) ==
    [regions |-> Append(dom.regions, message),
     ids |-> Append(dom.ids, dom.announced + 1),
     timers |-> Append(dom.timers, dom.announced + 1),
     announced |-> dom.announced + 1]

\* announcement.remove() (script.js 348) for the announcement id.
RemoveAnnouncement(dom, id) ==
    LET keep == {i \in DOMAIN dom.ids : dom.ids[i] # id}
        Kept(q) == [i \in 1..Cardinality(keep) |->
                       q[CHOOSE k \in keep :
                             Cardinality({j \in keep : j <= k}) = i]]
    IN [dom EXCEPT !.regions = Kept(dom.regions), !.ids = Kept(dom.ids)]

\* prefersReducedMotion (script.js 351-353).
prefersReducedMotion == reducedMotion

\* The submit control as handleFormSubmit sees it.
SubmitBtn == [disabled |-> btnDisabled, ariaBusy |-> btnAriaBusy, label |-> btnLabel]

\* Fault: the label is read after the loading label has been set.
OriginalButtonContent_AfterLoading(btn) == LoadingLabel

\* const originalButtonContent = submitBtn.innerHTML (script.js 106).
OriginalButtonContent(btn) == btn.label

\* Fault: the control is marked busy and relabelled but not disabled.
LoadingState_NotDisabled(btn) ==
    [disabled |-> btn.disabled, ariaBusy |-> "true", label |-> LoadingLabel]

\* The loading state of the submit control (script.js 107-109).
LoadingState(btn) ==
    [disabled |-> TRUE, ariaBusy |-> "true", label |-> LoadingLabel]

\* The catch block's reset of the submit control (script.js 144-146).
RestoredState(btn, originalButtonContent) ==
    [disabled |-> FALSE, ariaBusy |-> "false", label |-> originalButtonContent]

\* The browser dispatches submit only through the form's submit control or
\* through implicit submission from the email field; both are blocked while
\* the control is disabled (script.js 107) and neither exists while the
\* form is not rendered (script.js 126).
SubmitAllowed(btn, display) == ~btn.disabled /\ display # "none"

-----------------------------------------------------------------------------
(* Waitlist form: handleFormSubmit                                         *)

\* Fault: the check tests for the empty string only.
Rejected_EmptyOnly(email) == email = <<>>

\* if (!email || !isValidEmail(email)) (script.js 98).
Rejected(email) == email = <<>> \/ ~isValidEmail(email)

\* fetch(form.action, ...) (script.js 113-119): the request leaves and the
\* handler suspends at the await.  The record keeps what the suspended
\* invocation holds (email, originalButtonContent) and the state the
\* submit control was in when the request left.
Fetch(btn, email, originalButtonContent) ==
    [id |-> fetches + 1, email |-> email,
     originalButtonContent |-> originalButtonContent, btnAtSend |-> btn]

\* Fault: the reduced-motion preference is not consulted.
CelebrationWanted_Always == TRUE

\* if (!prefersReducedMotion()) (script.js 133).
CelebrationWanted == ~prefersReducedMotion

\* The whole address as the event's email_domain.
EmailDomain_WholeAddress(email) == email

\* { email_domain: email.split('@')[1] } (script.js 138).
EmailDomain(email) == Split(email, "@")[2]

\* trackEvent (script.js 358-370): the event name and data are handed to
\* gtag when it is a function, and logged to the console on localhost.
trackEvent(log, eventName, eventData) ==
    Append(log, [eventName |-> eventName, eventData |-> eventData])

\* handleFormSubmit up to its await (script.js 90-119).
handleFormSubmit ==
    /\ "initWaitlistForm" \in installed
    /\ SubmitAllowed(SubmitBtn, formDisplay)
    /\ submits < MaxSubmits
    /\ submits' = submits + 1
    /\ LET email == Trim(emailValue) IN
       IF Rejected(email)
       THEN \* shakeElement, focus, announce, return (script.js 99-102)
            /\ emailInvalid' = "true"
            /\ shakeTimers' = shakeTimers + 1
            /\ shakes' = shakes + 1
            /\ activeElement' = "emailInput"
            /\ SetAnnouncements(announceToScreenReader(Announcements, InvalidMessage))
            /\ lastEvent' = "submitInvalid"
            /\ UNCHANGED <<btnDisabled, btnAriaBusy, btnLabel, requests, fetches>>
       ELSE \* loading state, then the request (script.js 106-119)
            LET originalButtonContent == OriginalButtonContent(SubmitBtn)
                loading == LoadingState(SubmitBtn)
            IN /\ btnDisabled' = loading.disabled
               /\ btnAriaBusy' = loading.ariaBusy
               /\ btnLabel' = loading.label
               /\ requests' = requests \cup
                                {Fetch(loading, email, originalButtonContent)}
               /\ fetches' = fetches + 1
               /\ lastEvent' = "requestSent"
               /\ UNCHANGED <<emailInvalid, shakeTimers, shakes, activeElement,
                              announceVars>>
    /\ UNCHANGED <<emailValue, formDisplay, successShown, okResponses, successes,
                   reducedMotion, gtagMode, confettiNodes, confettiTimers,
                   confettiLog, tracked, formErrors>>
    /\ UNCHANGED <<bootVars, revealVars, frameVars, otherVars>>

\* The catch block (script.js 140-149), entered by invocation r with the
\* live regions as the try block left them.
FormSubmissionCatch(r, regions) ==
    LET restored == RestoredState(SubmitBtn, r.originalButtonContent) IN
    /\ formErrors' = formErrors + 1
    /\ btnDisabled' = restored.disabled
    /\ btnAriaBusy' = restored.ariaBusy
    /\ btnLabel' = restored.label
    /\ SetAnnouncements(announceToScreenReader(regions, ErrorMessage))

\* handleFormSubmit after its await (script.js 121-149): invocation r
\* resumes with an ok response, a response that is not ok, or a rejection.
handleFormSubmitResumes(r, outcome) ==
    /\ r \in requests
    /\ requests' = requests \ {r}
    /\ IF outcome = "ok"
       THEN \* the success path (script.js 125-138)
            LET regions == announceToScreenReader(Announcements, SuccessMessage)
                confetti == CelebrationWanted
                dom == [nodes |-> confettiNodes, timers |-> confettiTimers]
                celebrated == createConfetti(dom, Len(confettiLog) + 1)
            IN /\ okResponses' = okResponses + 1
               /\ formDisplay' = "none"
               /\ successShown' = TRUE
               /\ successes' = successes + 1
               /\ confettiNodes' = IF confetti THEN celebrated.nodes
                                   ELSE confettiNodes
               /\ confettiTimers' = IF confetti THEN celebrated.timers
                                    ELSE confettiTimers
               /\ confettiLog' = IF confetti
                                 THEN Append(confettiLog, reducedMotion)
                                 ELSE confettiLog
               /\ tracked' = trackEvent(tracked, "waitlist_signup",
                                         [email_domain |-> EmailDomain(r.email)])
               /\ CASE gtagMode \in {"absent", "ok"} ->
                         /\ SetAnnouncements(regions)
                         /\ lastEvent' = "success"
                         /\ UNCHANGED <<formErrors, btnDisabled, btnAriaBusy,
                                        btnLabel>>
                    [] gtagMode = "throws" ->
                         /\ FormSubmissionCatch(r, regions)
                         /\ lastEvent' = "successStepThrew"
       ELSE \* throw new Error(...) or the rejection, then the catch block
            /\ FormSubmissionCatch(r, Announcements)
            /\ lastEvent' = "requestFailed"
            /\ UNCHANGED <<okResponses, formDisplay, successShown, successes,
                           confettiNodes, confettiTimers, confettiLog, tracked>>
    /\ UNCHANGED <<emailValue, submits, fetches, emailInvalid, shakeTimers,
                   shakes, activeElement, reducedMotion, gtagMode>>
    /\ UNCHANGED <<bootVars, revealVars, frameVars, otherVars>>

\* The outcomes of a request: response.ok, a response that is not ok, or a
\* rejected fetch.
Outcomes == {"ok", "notOk", "rejected"}

RequestCompletes ==
    \E r \in requests : \E outcome \in Outcomes : handleFormSubmitResumes(r, outcome)

\* The user edits the email field.
TypeEmail ==
    /\ formDisplay # "none"
    /\ \E v \in EmailInputs : v # emailValue /\ emailValue' = v
    /\ lastEvent' = "input"
    /\ UNCHANGED <<btnDisabled, btnAriaBusy, btnLabel, formDisplay, successShown,
                   requests, submits, fetches, okResponses, successes, announceVars,
                   emailInvalid, shakeTimers, shakes, activeElement, reducedMotion,
                   gtagMode, confettiNodes, confettiTimers, confettiLog, tracked,
                   formErrors>>
    /\ UNCHANGED <<bootVars, revealVars, frameVars, otherVars>>

\* The user switches the reduced-motion preference.
MotionPreferenceChanges ==
    /\ reducedMotion' = ~reducedMotion
    /\ lastEvent' = "preference"
    /\ UNCHANGED <<emailValue, btnDisabled, btnAriaBusy, btnLabel, formDisplay,
                   successShown, requests, submits, fetches, okResponses,
                   successes, announceVars, emailInvalid, shakeTimers, shakes,
                   activeElement, gtagMode, confettiNodes, confettiTimers,
                   confettiLog, tracked, formErrors>>
    /\ UNCHANGED <<bootVars, revealVars, frameVars, otherVars>>

\* setTimeout(() => announcement.remove(), 1000) (script.js 348): the
\* oldest pending timer runs and removes its announcement.
AnnouncementExpires ==
    /\ announceTimers # <<>>
    /\ SetAnnouncements(RemoveAnnouncement(
           [Announcements EXCEPT !.timers = Tail(announceTimers)],
           Head(announceTimers)))
    /\ lastEvent' = "timer"
    /\ UNCHANGED <<emailValue, btnDisabled, btnAriaBusy, btnLabel, formDisplay,
                   successShown, requests, submits, fetches, okResponses,
                   successes, emailInvalid, shakeTimers, shakes, activeElement,
                   reducedMotion, gtagMode, confettiNodes, confettiTimers,
                   confettiLog, tracked, formErrors>>
    /\ UNCHANGED <<bootVars, revealVars, frameVars, otherVars>>

\* The reset timer of shakeElement runs (script.js 170-174).
ShakeResets ==
    /\ shakeTimers > 0
    /\ shakeTimers' = shakeTimers - 1
    /\ emailInvalid' = "false"
    /\ lastEvent' = "timer"
    /\ UNCHANGED <<emailValue, btnDisabled, btnAriaBusy, btnLabel, formDisplay,
                   successShown, requests, submits, fetches, okResponses,
                   successes, announceVars, shakes, activeElement, reducedMotion,
                   gtagMode, confettiNodes, confettiTimers, confettiLog, tracked,
                   formErrors>>
    /\ UNCHANGED <<bootVars, revealVars, frameVars, otherVars>>

\* The cleanup timer of createConfetti runs (script.js 238-240): every
\* element whose style names confettiFall is removed.
ConfettiCleanup ==
    /\ confettiTimers # <<>>
    /\ confettiTimers' = Tail(confettiTimers)
    /\ confettiNodes' = ConfettiLeftBy(confettiNodes)
    /\ lastEvent' = "timer"
    /\ UNCHANGED <<emailValue, btnDisabled, btnAriaBusy, btnLabel, formDisplay,
                   successShown, requests, submits, fetches, okResponses,
                   successes, announceVars, emailInvalid, shakeTimers, shakes,
                   activeElement, reducedMotion, gtagMode, confettiLog, tracked,
                   formErrors>>
    /\ UNCHANGED <<bootVars, revealVars, frameVars, otherVars>>

-----------------------------------------------------------------------------
(* Navbar scroll style and parallax                                        *)

\* The scroll threshold of updateNavbar, in px (script.js 292).
NavThreshold == 100

\* Number of animation frame requests the page makes.
MaxHandles == 4

\* Vertical scroll offsets the page takes.
ScrollPositions == {0, NavThreshold, NavThreshold + 1, 3 * NavThreshold}

\* Pointer positions (clientX, clientY) of mousemove events.
MousePoints == {<<0, 0>>, <<600, 400>>}

\* Centre of the hero visual in document coordinates.
HeroCentre == <<500, 300>>

\* requestAnimationFrame(callback): the callback is queued under the next
\* animation frame callback identifier, which is returned.
RequestAnimationFrame(queue, handle, callback, event) ==
    Append(queue, [handle |-> handle + 1, callback |-> callback, event |-> event])

\* Fault: the threshold itself counts as scrolled past.
NavbarPreset_AtThreshold(scrollY) ==
    IF scrollY >= NavThreshold THEN "opaque" ELSE "translucent"

\* The style branch of updateNavbar (script.js 290-298).
NavbarPreset(scrollY) == IF scrollY > NavThreshold THEN "opaque" ELSE "translucent"

\* The scroll listener's guard (script.js 305).
NotTicking == ~ticking

\* The window scrolls to offset y and the scroll listener runs
\* (script.js 304-309).
Scroll ==
    /\ "initNavbarScroll" \in installed
    /\ \E y \in ScrollPositions : y # pageYOffset /\ pageYOffset' = y
    /\ scrolled' = TRUE
    /\ IF NotTicking
       THEN /\ nextHandle < MaxHandles
            /\ rafQueue' = RequestAnimationFrame(rafQueue, nextHandle,
                                                 "updateNavbar", <<>>)
            /\ nextHandle' = nextHandle + 1
            /\ ticking' = TRUE
            /\ UNCHANGED absorbed
       ELSE /\ absorbed' = TRUE
            /\ UNCHANGED <<rafQueue, nextHandle, ticking>>
    /\ UNCHANGED <<navStyle, rafId, heroTransform, desktop, parallaxOn>>
    /\ UNCHANGED <<bootVars, revealVars, formVars, otherVars>>

\* The mousemove listener's guard: if (rafId) return (script.js 385).
RafIdSet == rafId # 0

\* A mousemove event and the parallax listener (script.js 384-398).
MouseMove ==
    /\ parallaxOn
    /\ \E e \in MousePoints :
         IF RafIdSet
         THEN UNCHANGED <<rafQueue, nextHandle, rafId>>
         ELSE /\ nextHandle < MaxHandles
              /\ rafQueue' = RequestAnimationFrame(rafQueue, nextHandle,
                                                   "parallax", e)
              /\ nextHandle' = nextHandle + 1
              /\ rafId' = nextHandle + 1
    /\ UNCHANGED <<pageYOffset, ticking, navStyle, heroTransform, scrolled,
                   absorbed, desktop, parallaxOn>>
    /\ UNCHANGED <<bootVars, revealVars, formVars, otherVars>>

\* Fault: the guard flag is not cleared.
updateNavbar_KeepsTicking(st) ==
    [st EXCEPT !.navStyle = NavbarPreset(pageYOffset)]

\* updateNavbar (script.js 289-301) on the frame state st.
updateNavbar(st) ==
    [st EXCEPT !.navStyle = NavbarPreset(pageYOffset), !.ticking = FALSE]

\* The parallax frame callback (script.js 387-397) for mousemove event e:
\* the offset of the pointer from the visual's centre in the viewport, in
\* units of 1/50 px (script.js 392-393).
ParallaxFrame(st, e) ==
    [st EXCEPT !.heroTransform = <<e[1] - HeroCentre[1],
                                   e[2] - (HeroCentre[2] - pageYOffset)>>,
               !.rafId = 0]

\* The callbacks of one animation frame run in request order.
RECURSIVE RunCallbacks(_, _)
RunCallbacks(queue, st) ==
    IF queue = <<>> THEN st
    ELSE RunCallbacks(Tail(queue),
                      IF Head(queue).callback = "updateNavbar"
                      THEN updateNavbar(st)
                      ELSE ParallaxFrame(st, Head(queue).event))

\* The browser runs the pending animation frame callbacks.
AnimationFrame ==
    /\ rafQueue # <<>>
    /\ LET st == RunCallbacks(rafQueue,
                   [navStyle |-> navStyle, ticking |-> ticking,
                    heroTransform |-> heroTransform, rafId |-> rafId])
       IN /\ navStyle' = st.navStyle
          /\ ticking' = st.ticking
          /\ heroTransform' = st.heroTransform
          /\ rafId' = st.rafId
    /\ rafQueue' = <<>>
    /\ UNCHANGED <<pageYOffset, nextHandle, scrolled, absorbed, desktop,
                   parallaxOn>>
    /\ UNCHANGED <<bootVars, revealVars, formVars, otherVars>>

-----------------------------------------------------------------------------
(* Initial states and specifications                                       *)

GtagModes == {"absent", "ok", "throws"}

\* The page's markup and the script's closures before any handler has run.
RevealStart ==
    /\ visible = {}
    /\ revealTimers = <<>>
    /\ scheduled = [t \in Targets |-> 0]
    /\ fired = [t \in Targets |-> 0]
    /\ reported = [t \in Targets |-> "never"]
    /\ batches = 0
    /\ lastBatch = <<>>

FormStart ==
    /\ emailValue = <<>>
    /\ btnDisabled = FALSE
    /\ btnAriaBusy = "unset"
    /\ btnLabel = OriginalLabel
    /\ formDisplay = ""
    /\ successShown = FALSE
    /\ requests = {}
    /\ submits = 0
    /\ fetches = 0
    /\ okResponses = 0
    /\ successes = 0
    /\ liveRegions = <<>>
    /\ regionIds = <<>>
    /\ announceTimers = <<>>
    /\ announced = 0
    /\ emailInvalid = "unset"
    /\ shakeTimers = 0
    /\ shakes = 0
    /\ activeElement = "body"
    /\ confettiNodes = <<>>
    /\ confettiTimers = <<>>
    /\ confettiLog = <<>>
    /\ tracked = <<>>
    /\ formErrors = 0
    /\ lastEvent = "none"

FrameStart ==
    /\ pageYOffset = 0
    /\ ticking = FALSE
    /\ navStyle = "stylesheet"
    /\ rafQueue = <<>>
    /\ nextHandle = 0
    /\ rafId = 0
    /\ heroTransform = <<>>
    /\ scrolled = FALSE
    /\ absorbed = FALSE

-----------------------------------------------------------------------------
(* Smooth scroll for anchor links and keyboard navigation                  *)

\* The elements with an id that the page's anchors point at, and the
\* distance of each from the top of the document, in px.
Sections == {"features", "pricing"}

DocTop(t) == IF t = "features" THEN 600 ELSE 1400

\* The href attributes of the page's a[href^="#"] anchors (script.js 247):
\* the bare '#', the fragments of the sections and one that no element has.
Hrefs == {"#", "#features", "#pricing", "#missing"}

\* Number of clicks on the anchors.
MaxClicks == 3

\* The heights of the fixed navbar.
NavHeights == {0, 64}

\* document.querySelector(targetId) (script.js 253): the element or "null".
QuerySelector(targetId) ==
    CASE targetId = "#features" -> "features"
      [] targetId = "#pricing" -> "pricing"
      [] OTHER -> "null"

\* targetElement.getBoundingClientRect().top, relative to the viewport.
RectTop(t) == DocTop(t) - pageYOffset

\* The destination offset (script.js 259).
TargetPosition(t) == RectTop(t) + pageYOffset - navHeight - 20

\* The arguments of window.scrollTo (script.js 262-270).
ScrollToCall(t) ==
    IF smoothSupported
    THEN [top |-> TargetPosition(t), behavior |-> "smooth"]
    ELSE [top |-> TargetPosition(t), behavior |-> "auto"]

\* targetElement.setAttribute('tabindex', '-1') (script.js 273).
FocusableTabindex(current) == "-1"

\* targetElement.focus({ preventScroll: true }) (script.js 274).
FocusOptions == [preventScroll |-> TRUE]

\* The click listener of an anchor (script.js 248-276).
AnchorClick(href) ==
    /\ clicks < MaxClicks
    /\ clicks' = clicks + 1
    /\ LET targetId == href
           targetElement == QuerySelector(targetId)
       IN IF targetId # "#" /\ targetElement # "null"
          THEN /\ lastClick' = [href |-> href, defaultPrevented |-> TRUE,
                                focused |-> targetElement, focus |-> FocusOptions]
               /\ scrollCalls' = Append(scrollCalls, ScrollToCall(targetElement))
               /\ tabindex' = [tabindex EXCEPT ![targetElement] =
                                   FocusableTabindex(tabindex[targetElement])]
               /\ activeElement' = targetElement
          ELSE /\ lastClick' = [href |-> href, defaultPrevented |-> FALSE,
                                focused |-> "null", focus |-> <<>>]
               /\ UNCHANGED <<scrollCalls, tabindex, activeElement>>
    /\ UNCHANGED <<navHeight, smoothSupported>>
    /\ UNCHANGED <<emailValue, btnDisabled, btnAriaBusy, btnLabel, formDisplay,
                   successShown, requests, submits, fetches, okResponses,
                   successes, announceVars, emailInvalid, shakeTimers, shakes,
                   reducedMotion, gtagMode, confettiNodes, confettiTimers,
                   confettiLog, tracked, formErrors, lastEvent>>
    /\ UNCHANGED <<bootVars, revealVars, frameVars, validatorVars, markerVars>>

ClickAnchor == \E href \in Hrefs : AnchorClick(href)

\* The keydown listener on an Escape key press (script.js 327-332): the
\* focused element is blurred, which hands the focus to the body.
EscapeKey ==
    /\ activeElement # "body"
    /\ activeElement' = "body"
    /\ UNCHANGED <<emailValue, btnDisabled, btnAriaBusy, btnLabel, formDisplay,
                   successShown, requests, submits, fetches, okResponses,
                   successes, announceVars, emailInvalid, shakeTimers, shakes,
                   reducedMotion, gtagMode, confettiNodes, confettiTimers,
                   confettiLog, tracked, formErrors, lastEvent>>
    /\ UNCHANGED <<bootVars, revealVars, frameVars, otherVars>>

\* No anchor has been clicked; the markup gives some sections a tabindex.
AnchorStart ==
    /\ tabindex \in [Sections -> {"unset", "0"}]
    /\ navHeight \in NavHeights
    /\ smoothSupported \in BOOLEAN
    /\ clicks = 0
    /\ lastClick = <<>>
    /\ scrollCalls = <<>>

\* One page for the features that do not look at the anchors.
PlainAnchors ==
    /\ AnchorStart
    /\ tabindex = [t \in Sections |-> "unset"]
    /\ navHeight = 64
    /\ smoothSupported

\* No string has been handed to isValidEmail on its own.
ValidatorStart == candidate = <<>> /\ verdict = <<>>

\* The page as it starts to load: the script has not run yet.
Init ==
    /\ readyState = "loading"
    /\ scriptRan = FALSE
    /\ dclListener = FALSE
    /\ dclFired = FALSE
    /\ throwing \in SUBSET Initializers
    /\ pageTargets \in {1..n : n \in PageSizes}
    /\ called = <<>>
    /\ installed = {}
    /\ initRuns = 0
    /\ initErrors = 0
    /\ observed = {}
    /\ RevealStart
    /\ FormStart
    /\ FrameStart
    /\ reducedMotion \in BOOLEAN
    /\ gtagMode \in GtagModes
    /\ desktop \in BOOLEAN
    /\ parallaxOn = FALSE
    /\ ValidatorStart
    /\ AnchorStart
    /\ ioSupported \in BOOLEAN
    /\ marked \in SUBSET pageTargets
    /\ inlineShown = {}

\* The page after the script ran while the document was loading and init ran
\* at DOMContentLoaded with no initializer throwing.
PageReady ==
    /\ readyState = "complete"
    /\ scriptRan = TRUE
    /\ dclListener = TRUE
    /\ dclFired = TRUE
    /\ throwing = {}
    /\ pageTargets \in {1..n : n \in PageSizes}
    /\ called = InitOrder
    /\ installed = Initializers
    /\ initRuns = 1
    /\ initErrors = 0
    /\ ioSupported = TRUE
    /\ observed = pageTargets
    /\ marked = pageTargets
    /\ inlineShown = {}
    /\ RevealStart
    /\ FormStart
    /\ FrameStart
    /\ reducedMotion \in BOOLEAN
    /\ gtagMode \in GtagModes
    /\ desktop \in BOOLEAN
    /\ parallaxOn = ParallaxEnabled

NextBoot == ScriptExecutes \/ ParsingEnds \/ DOMContentLoaded \/ WindowLoad

NextReveal == DeliverBatch \/ RevealTimerFires \/ TimePasses

NextForm ==
    \/ handleFormSubmit
    \/ RequestCompletes
    \/ TypeEmail
    \/ MotionPreferenceChanges
    \/ AnnouncementExpires
    \/ ShakeResets
    \/ ConfettiCleanup

NextFrames == Scroll \/ MouseMove \/ AnimationFrame

NextValidator == ValidateEmail

NextAnchors == ClickAnchor \/ EscapeKey

Next ==
    NextBoot \/ NextReveal \/ NextForm \/ NextFrames \/ NextValidator \/ NextAnchors

\* The whole page.
Spec == Init /\ [][Next]_vars

\* The bootstrap alone, on one page.
InitBoot ==
    /\ Init
    /\ PlainAnchors
    /\ ioSupported
    /\ marked = {}
    /\ pageTargets = 1..NumTargets
    /\ gtagMode = "absent"

SpecBoot == InitBoot /\ [][NextBoot]_vars

\* The bootstrap on pages of every size, with and without
\* IntersectionObserver, whose markup gives the marker class to some targets.
InitMarkers ==
    /\ Init
    /\ PlainAnchors
    /\ gtagMode = "absent"
    /\ ~reducedMotion
    /\ desktop

SpecMarkers == InitMarkers /\ [][NextBoot]_vars

\* Each feature of the initialized page on its own.
InitReveal == PageReady /\ ValidatorStart /\ PlainAnchors /\ ~reducedMotion /\ gtagMode = "absent" /\ desktop

SpecReveal == InitReveal /\ [][NextReveal]_vars

InitForm == PageReady /\ ValidatorStart /\ PlainAnchors /\ pageTargets = 1..NumTargets /\ desktop

SpecForm == InitForm /\ [][NextForm]_vars

InitFrames == PageReady /\ ValidatorStart /\ PlainAnchors /\ pageTargets = 1..NumTargets /\ gtagMode = "absent"

SpecFrames == InitFrames /\ [][NextFrames]_vars

\* isValidEmail on its own, applied to one candidate string.
InitValidator ==
    /\ PageReady
    /\ pageTargets = 1..NumTargets
    /\ ~reducedMotion
    /\ gtagMode = "absent"
    /\ desktop
    /\ candidate \in Candidates
    /\ verdict = <<>>
    /\ PlainAnchors

SpecValidator == InitValidator /\ [][NextValidator]_vars

\* The anchors and the Escape key on the initialized page.
InitAnchors ==
    /\ PageReady
    /\ ValidatorStart
    /\ AnchorStart
    /\ pageTargets = 1..NumTargets
    /\ ~reducedMotion
    /\ gtagMode = "absent"
    /\ desktop

SpecAnchors == InitAnchors /\ [][NextAnchors]_vars

-----------------------------------------------------------------------------
(* Properties of the waitlist form                                         *)

\* A step in which handleFormSubmit handles a submit event whose trimmed
\* email is empty or is rejected by isValidEmail.
InvalidSubmitStep ==
    /\ submits' = submits + 1
    /\ (Trim(emailValue) = <<>> \/ ~isValidEmail(Trim(emailValue)))

\* C1: a submit event whose trimmed email is empty or rejected by
\* isValidEmail issues no network request, shakes the email field, announces
\* 'Please enter a valid email address' and leaves the submit control as it
\* was: enabled, not busy, label unchanged, no request in flight.
C1_InvalidSubmitStaysIdle ==
    [][InvalidSubmitStep =>
        /\ fetches' = fetches
        /\ requests' = requests
        /\ requests' = {}
        /\ shakes' = shakes + 1
        /\ emailInvalid' = "true"
        /\ liveRegions' = Append(liveRegions, InvalidMessage)
        /\ <<btnDisabled, btnAriaBusy, btnLabel>>' =
             <<btnDisabled, btnAriaBusy, btnLabel>>
        /\ ~btnDisabled'
        /\ btnAriaBusy' # "true"
        /\ formDisplay' = ""
        /\ ~successShown']_vars

\* C1 witness: a malformed, non-empty address was submitted after an earlier
\* request had failed.
C1_Witness ==
    /\ lastEvent = "submitInvalid"
    /\ Trim(emailValue) # <<>>
    /\ formErrors >= 1

FormState ==
    IF successShown THEN "Success"
    ELSE IF requests # {} THEN "Submitting" ELSE "Idle"

FormTransitions ==
    {<<"Idle", "Idle">>, <<"Idle", "Submitting">>,
     <<"Submitting", "Submitting">>, <<"Submitting", "Idle">>,
     <<"Submitting", "Success">>, <<"Success", "Success">>}

\* The submit control in its loading state.
ControlLoading ==
    [disabled |-> TRUE, ariaBusy |-> "true", label |-> LoadingLabel]

-----------------------------------------------------------------------------
(* Properties of the scroll reveal                                         *)

\* The scroll reveal with its timers running: a pending setTimeout callback
\* is eventually run by the event loop.
SpecRevealFair ==
    /\ InitReveal
    /\ [][NextReveal]_vars
    /\ WF_vars(RevealTimerFires)
    /\ WF_vars(TimePasses)

RevealedOnce ==
    \A t \in Targets :
        /\ scheduled[t] <= 1
        /\ fired[t] <= scheduled[t]
        /\ (t \in visible <=> fired[t] = 1)
        /\ (t \in visible => t \notin observed)
        /\ (scheduled[t] = 1 => t \notin observed)

\* C5: each target gets 'visible' exactly once: once reported intersecting,
\* one timer is scheduled for it and no second one, the timer runs once,
\* 'visible' is never removed, and the target is not under observation at or
\* after the moment it becomes visible.
C5_RevealedExactlyOnce ==
    /\ []RevealedOnce
    /\ [][visible \subseteq visible']_vars
    /\ \A t \in Targets : (scheduled[t] > 0) ~> (t \in visible)

\* C5 witness: every target of a page was revealed, over several batches.
C5_Witness ==
    /\ pageTargets # {}
    /\ visible = pageTargets
    /\ batches >= 2

\* Position of target t in a batch, and the number of intersecting entries
\* before position p.
PositionOf(t, entries) == CHOOSE p \in DOMAIN entries : entries[p].target = t

RankOf(p, entries) ==
    Cardinality({q \in 1..(p - 1) : entries[q].isIntersecting})

\* The pending timers of the batch delivered last.
LastBatchTimers ==
    {i \in DOMAIN revealTimers : revealTimers[i].batch = batches}

\* C6 as stated: the k-th (from 0) newly intersecting element of a batch is
\* scheduled after min(k * 100, 500) ms, whatever the mix of entries.
C6_DelayByRankAmongIntersecting ==
    \A i \in LastBatchTimers :
        revealTimers[i].delay =
            Min(RankOf(PositionOf(revealTimers[i].target, lastBatch), lastBatch)
                    * StaggerStep, StaggerCap)

\* What the callback computes: an intersecting entry at position i (from 0)
\* of the batch, counting every entry of the batch, is scheduled after
\* min(i * 100, 500) ms.
DelayByIndexInBatch ==
    \A i \in LastBatchTimers :
        revealTimers[i].delay =
            Min((PositionOf(revealTimers[i].target, lastBatch) - 1) * StaggerStep,
                StaggerCap)

\* In a batch mixing both kinds of entries, an intersecting entry beyond the
\* cap is scheduled after the capped delay.
CappedDelayInMixedBatch ==
    \E i \in LastBatchTimers :
        /\ PositionOf(revealTimers[i].target, lastBatch) - 1 > StaggerCap \div StaggerStep
        /\ revealTimers[i].delay = StaggerCap
        /\ \E q \in DOMAIN lastBatch : ~lastBatch[q].isIntersecting

-----------------------------------------------------------------------------
(* Properties of the animation-frame guards                                *)

Pending(callback) ==
    Cardinality({i \in DOMAIN rafQueue : rafQueue[i].callback = callback})

\* C7: per feature there is at most one pending animation frame request,
\* and the guard (ticking, rafId) is set exactly while one is pending.
C7_OnePendingFramePerFeature ==
    /\ Pending("updateNavbar") <= 1
    /\ (ticking <=> Pending("updateNavbar") = 1)
    /\ Pending("parallax") <= 1
    /\ (rafId # 0 <=> Pending("parallax") = 1)
    /\ \A i \in DOMAIN rafQueue :
          rafQueue[i].callback = "parallax" => rafQueue[i].handle = rafId

\* C7 witness: both guards are set again after their first frames ran, and
\* a scroll event was absorbed by the navbar guard.
C7_Witness ==
    /\ ticking
    /\ rafId # 0
    /\ absorbed
    /\ nextHandle = MaxHandles

\* C8: once a scroll event has occurred and no navbar frame callback is
\* pending, the navbar has the opaque preset exactly if the scroll offset
\* exceeds 100px.
C8_NavbarReflectsOffset ==
    (scrolled /\ Pending("updateNavbar") = 0) =>
        (navStyle = "opaque" <=> pageYOffset > NavThreshold)

\* C8 witness: scroll events were absorbed by the throttle, and the navbar
\* is translucent with the offset exactly at the threshold.
C8_Witness ==
    /\ absorbed
    /\ Pending("updateNavbar") = 0
    /\ pageYOffset = NavThreshold
    /\ navStyle = "translucent"

-----------------------------------------------------------------------------
(* Properties of the bootstrap                                             *)

\* C9 as stated: when one initializer throws during init, the error is
\* caught and logged and every other initializer has still run.
C9_OtherInitializersStillRun ==
    (initRuns = 1 /\ Cardinality(throwing) = 1) =>
        /\ initErrors = 1
        /\ \A f \in Initializers \ throwing : f \in installed

\* C10: init runs at most once, and exactly once by the time the script has
\* run and DOMContentLoaded has been dispatched; no initializer runs while
\* the document is still loading; when no initializer throws, init calls
\* each of them once, in the fixed order.
C10_InitOnceInOrderAfterParsing ==
    /\ initRuns <= 1
    /\ (initRuns = 0 => called = <<>>)
    /\ (called # <<>> => readyState # "loading")
    /\ (scriptRan /\ dclFired => initRuns = 1)
    /\ (initRuns = 1 /\ throwing = {} => called = InitOrder)

\* C10 witness: the script ran while the document was loading and init has
\* run from the DOMContentLoaded listener.
C10_Witness ==
    /\ dclListener
    /\ initRuns = 1
    /\ throwing = {}
    /\ readyState = "complete"

-----------------------------------------------------------------------------
(* Properties of the email validator                                       *)

\* The shape local@domain, stated on the positions of s: one '@' with a
\* non-empty run of local-part characters before it; after it alphanumerics,
\* hyphens and dots, where the first and the last character and both
\* neighbours of every dot are alphanumeric and every window of
\* MaxLabelLen + 1 characters holds a dot.
AddressShape(s) ==
    \E k \in DOMAIN s :
        /\ s[k] = "@"
        /\ \A j \in DOMAIN s : s[j] = "@" => j = k
        /\ k > 1
        /\ k < Len(s)
        /\ \A j \in 1..(k - 1) : s[j] \in LocalChars
        /\ \A j \in (k + 1)..Len(s) : s[j] \in Alnum \cup {"-", "."}
        /\ s[k + 1] \in Alnum
        /\ s[Len(s)] \in Alnum
        /\ \A j \in (k + 1)..Len(s) :
               s[j] = "." => s[j - 1] \in Alnum /\ s[j + 1] \in Alnum
        /\ \A j \in (k + 1)..(Len(s) - MaxLabelLen) :
               \E i \in j..(j + MaxLabelLen) : s[i] = "."

\* C11: isValidEmail returns true exactly for the strings of the shape
\* local@domain, the domain being dot-separated labels of 1 to 63
\* alphanumerics with hyphens in internal positions only, whose total length
\* is at most 254; so 'a@b.co' is accepted, and 'not-an-email', an address of
\* 255 characters of that shape and a label of 64 characters are rejected.
C11_ValidatorAcceptsExactlyTheShape ==
    /\ verdict # <<>> =>
           verdict[1] = (AddressShape(candidate) /\ Len(candidate) <= MaxEmailLen)
    /\ isValidEmail(<<"a", "@", "b", ".", "c", "o">>)
    /\ ~isValidEmail(<<"n", "o", "t", "-", "a", "n", "-", "e", "m", "a", "i", "l">>)

\* The address of 255 characters of the right shape has been rejected.
C11_Witness ==
    /\ candidate = LongAddress(LongLocal + 1)
    /\ Len(candidate) = MaxEmailLen + 1
    /\ AddressShape(candidate)
    /\ verdict = <<FALSE>>

\* The confetti elements in the document that invocation call made.
ConfettiOf(nodes, call) == SelectSeq(nodes, LAMBDA n : n.call = call)

\* C12: each invocation of createConfetti adds exactly 50 elements, each
\* hidden from assistive technology and not interactive, and sets one cleanup
\* timer; a confetti element is in the document only while the cleanup timer
\* of the invocation that made it is pending, so once that timer has fired
\* none of the invocation's elements remains.
C12_ConfettiAddedThenCleanedUp ==
    [][/\ Len(confettiLog') = Len(confettiLog) + 1 =>
              LET call == Len(confettiLog') IN
              /\ Len(confettiNodes') = Len(confettiNodes) + 50
              /\ Len(ConfettiOf(confettiNodes', call)) = 50
              /\ \A i \in DOMAIN confettiNodes' :
                     /\ confettiNodes'[i].ariaHidden = "true"
                     /\ confettiNodes'[i].pointerEvents = "none"
              /\ confettiTimers' = Append(confettiTimers, call)
       /\ Len(confettiTimers') < Len(confettiTimers) =>
              ConfettiOf(confettiNodes', Head(confettiTimers)) = <<>>
       /\ \A i \in DOMAIN confettiNodes' :
              confettiNodes'[i].call \in Range(confettiTimers')
      ]_vars

\* The confetti of a successful signup has been cleaned up.
C12_Witness ==
    /\ Len(confettiLog) = 1
    /\ confettiTimers = <<>>
    /\ confettiNodes = <<>>
    /\ lastEvent = "timer"

-----------------------------------------------------------------------------
(* Properties of the analytics event                                       *)

\* The part of the address s after its '@', when s has exactly one.
AfterAt(s) ==
    LET k == CHOOSE i \in DOMAIN s : s[i] = "@" IN SubSeq(s, k + 1, Len(s))

\* C13: the 'waitlist_signup' event is emitted only by the continuation of a
\* submission whose request returned ok, once per such submission, and its
\* data holds nothing but the part of the submitted address after the '@':
\* neither the local part nor the '@' reaches it.
C13_SignupEventCarriesDomainOnly ==
    [][/\ Len(tracked') = okResponses'
       /\ tracked' # tracked =>
              \E r \in requests :
                  /\ r \notin requests'
                  /\ okResponses' = okResponses + 1
                  /\ Len(tracked') = Len(tracked) + 1
                  /\ LET e == tracked'[Len(tracked')] IN
                     /\ e.eventName = "waitlist_signup"
                     /\ DOMAIN e.eventData = {"email_domain"}
                     /\ e.eventData.email_domain = AfterAt(r.email)
                     /\ "@" \notin Range(e.eventData.email_domain)
                     /\ Len(e.eventData.email_domain) < Len(r.email) - 1
      ]_vars

\* The signup of x@y.io has been reported with the domain y.io.
C13_Witness ==
    /\ okResponses = 1
    /\ Len(tracked) = 1
    /\ tracked[1].eventData.email_domain = <<"y", ".", "i", "o">>
    /\ gtagMode = "ok"

-----------------------------------------------------------------------------
(* Properties of the smooth scroll                                         *)

\* C14: a click on an in-page anchor has its default navigation suppressed
\* exactly when the href is not '#' and resolves to an existing element; the
\* focus then ends on the target through a focus call that asks for no
\* scrolling, and the target is made focusable only if it was not already: a
\* target that had a tabindex keeps it unchanged.
C14_FocusKeepsExistingTabindex ==
    [][clicks' = clicks + 1 =>
           LET t == QuerySelector(lastClick'.href) IN
           /\ lastClick'.defaultPrevented
                  <=> (lastClick'.href # "#" /\ t \in Sections)
           /\ lastClick'.defaultPrevented =>
                  /\ activeElement' = t
                  /\ lastClick'.focus.preventScroll
                  /\ tabindex[t] # "unset" => tabindex'[t] = tabindex[t]
                  /\ tabindex'[t] # "unset"
      ]_vars

\* What the click listener does to the focus and the tabindex: the focus
\* ends on the target, asked for without scrolling, and the target's
\* tabindex is '-1' afterwards whatever it was.
FocusOverwritesTabindex ==
    [][clicks' = clicks + 1 =>
           LET t == QuerySelector(lastClick'.href) IN
           /\ lastClick'.defaultPrevented
                  <=> (lastClick'.href # "#" /\ t \in Sections)
           /\ lastClick'.defaultPrevented =>
                  /\ activeElement' = t
                  /\ lastClick'.focus.preventScroll
                  /\ tabindex'[t] = "-1"
      ]_vars

\* A section that the markup put in the tab order has been focused by a click.
TabindexOverwritten ==
    /\ lastClick # <<>>
    /\ lastClick.defaultPrevented
    /\ activeElement = "features"
    /\ tabindex["features"] = "-1"

-----------------------------------------------------------------------------
(* Properties of the screen reader announcements                           *)

\* The messages the handler step that ran last announces, in order.
AnnouncedBy(event) ==
    CASE event = "submitInvalid" -> <<InvalidMessage>>
      [] event = "requestFailed" -> <<ErrorMessage>>
      [] event = "success" -> <<SuccessMessage>>
      [] event = "successStepThrew" -> <<SuccessMessage, ErrorMessage>>
      [] OTHER -> <<>>

\* C15: each call of announceToScreenReader inserts exactly one live-region
\* element carrying the message; an element leaves the document only in the
\* step of its own timer; and once every announcement timer has fired no
\* announcement element remains.
C15_AnnouncementsRemovedByOwnTimer ==
    [][/\ announced' > announced =>
              LET k == announced' - announced IN
              /\ liveRegions' = liveRegions \o AnnouncedBy(lastEvent')
              /\ k = Len(AnnouncedBy(lastEvent'))
              /\ regionIds' = regionIds \o [i \in 1..k |-> announced + i]
              /\ announceTimers' = announceTimers \o [i \in 1..k |-> announced + i]
       /\ \A id \in Range(regionIds) \ Range(regionIds') :
              /\ announceTimers # <<>>
              /\ id = Head(announceTimers)
              /\ announceTimers' = Tail(announceTimers)
              /\ Len(liveRegions') = Len(liveRegions) - 1
       /\ Len(liveRegions') = Len(regionIds')
       /\ announceTimers' = <<>> => liveRegions' = <<>>
      ]_vars

\* Several announcements were made, an error announcement among them, and
\* the timers have removed them all.
C15_Witness ==
    /\ announced >= 2
    /\ announceTimers = <<>>
    /\ liveRegions = <<>>
    /\ lastEvent = "timer"
    /\ formErrors >= 1

-----------------------------------------------------------------------------
(* Properties of the scroll reveal without IntersectionObserver            *)

\* The stylesheet's part in the reveal: an element carrying the marker class
\* is rendered hidden until it carries 'visible' too; inline styles override
\* the stylesheet.
RenderedHidden(t) == t \in marked /\ t \notin visible /\ t \notin inlineShown

-----------------------------------------------------------------------------
(* Properties of the order of the reveals                                  *)

\* The timer at position k of revealTimers is the one whose callback runs in
\* this step.
TimerRuns(k) ==
    /\ revealTimers' = RemoveAt(revealTimers, k)
    /\ fired' = [fired EXCEPT ![revealTimers[k].target] = @ + 1]
    /\ visible' = visible \cup {revealTimers[k].target}

\* C17: within one batch the reveals keep the order of the entries: when the
\* element of the intersecting entry at position j is marked visible, the
\* element of every intersecting entry at a position i < j of the same batch
\* has been marked visible already, also when both share the capped delay
\* of 500 ms.
C17_RevealsKeepBatchOrder ==
    [][\A k \in DOMAIN revealTimers :
           TimerRuns(k) =>
               \A m \in DOMAIN revealTimers :
                   ~(/\ revealTimers[m].batch = revealTimers[k].batch
                     /\ revealTimers[m].index < revealTimers[k].index)
      ]_vars

\* Every element of a batch of seven intersecting entries is visible: the
\* entries at positions 5 and 6 shared the delay of 500 ms.
C17_Witness ==
    /\ batches = 1
    /\ Len(lastBatch) = 7
    /\ \A i \in DOMAIN lastBatch : lastBatch[i].isIntersecting
    /\ StaggerDelay(5) = StaggerDelay(6)
    /\ visible = pageTargets
    /\ revealTimers = <<>>

-----------------------------------------------------------------------------
(* Properties of the outcomes of a submission                              *)

\* C18: the success and the error outcome of one submission exclude each
\* other: the catch block (error logged and announced, submit control
\* restored) runs only in the continuation of a request that failed or was
\* not ok, and once the success panel is shown the control stays disabled
\* and no error is announced for that submission, whatever later step of
\* the success path fails.
C18_SuccessExcludesErrorPath ==
    [][/\ formErrors' > formErrors =>
              /\ okResponses' = okResponses
              /\ successes' = successes
       /\ successShown' =>
              /\ btnDisabled'
              /\ btnLabel' = LoadingLabel
              /\ \A i \in DOMAIN liveRegions' :
                     i > Len(liveRegions) => liveRegions'[i] # ErrorMessage
      ]_vars

\* The success panel is shown and the error path has run for the same
\* submission: the error is announced and the control is enabled again.
ErrorAfterSuccess ==
    /\ successShown
    /\ lastEvent = "successStepThrew"
    /\ formErrors = 1
    /\ fetches = 1
    /\ okResponses = 1
    /\ ~btnDisabled
    /\ liveRegions = <<SuccessMessage, ErrorMessage>>

-----------------------------------------------------------------------------
(* Properties of the requests of the form                                  *)

=============================================================================
